---- MODULE Spec2Model ----
(***************************************************************************)
(* Model of the strategy sniper (src/src/index.ts, lines 1-444): the       *)
(* start-up of the process, the NFTStrategyLaunched subscription and the   *)
(* asynchronous handler that turns one launch event into at most one swap. *)
(* Every await of the handler is a suspension point: an action resumes a   *)
(* task with the outcome of the call it awaited and runs the synchronous   *)
(* code up to the next await, where the next call is issued.               *)
(***************************************************************************)
EXTENDS Integers, Sequences, FiniteSets

VARIABLES
    env,            \* which required environment variables are set
    HOOK_OVERRIDE,  \* process.env.HOOK_ADDRESS, Unset when absent
    ETH_AMOUNT_IN,  \* the configured amount, in wei after parseEther
    mainPc,         \* position of the module body / main()
    exited,         \* process.exit was called
    exitCode,       \* its argument
    wsOpen,         \* the websocket of the provider is open
    subscribed,     \* factory.on("NFTStrategyLaunched") is registered
    closeHandler,   \* websocket.on("close") is registered
    nEvents,        \* launch events delivered so far
    task            \* one handler execution per delivered event

vars == <<env, HOOK_OVERRIDE, ETH_AMOUNT_IN, mainPc, exited, exitCode,
          wsOpen, subscribed, closeHandler, nEvents, task>>

---------------------------------------------------------------------------
(* Bounds of the model *)

MaxEvents == 1      \* launch events delivered in one run
MaxAddr == 2        \* token addresses are 1 and MaxAddr, the hook is MaxAddr
MaxDelta == 10      \* the simulated token-leg delta under Spec
MaxAmount == 2      \* ETH_AMOUNT_IN in wei; balances are 0..MaxAmount+1
MaxGas == 5         \* the gas estimate
MaxSimDelta == 60   \* deltas -MaxSimDelta..MaxSimDelta under SpecSim
MaxWideGas == 120   \* gas estimates 0..MaxWideGas under SpecGas

(* Program constants *)

Unset == -1                     \* the "" of an absent optional variable
ZeroAddress == 0                \* ethers.ZeroAddress
PoolFee == 0                    \* fee
TickSpacing == 60               \* tickSpacing
DeadlineSeconds == 180          \* deadline = now + 180
DefaultGasLimit == 1200000      \* overrides.gasLimit
WalletAddress == 9              \* wallet.address, fixed by PRIVATE_KEY

RequiredVars == {"RPC_WSS", "PRIVATE_KEY", "FACTORY_ADDRESS", "ROUTER_ADDRESS",
                 "POOL_MANAGER_ADDRESS"}

Addresses == {1, MaxAddr}
HookAddresses == {MaxAddr}
Amounts == {MaxAmount}
Balances == 0..(MaxAmount + 1)
SimDeltas == {MaxDelta}
WideSimDeltas == (-MaxSimDelta)..MaxSimDelta
GasEstimates == {MaxGas}
WideGasEstimates == 0..MaxWideGas
Times == {1000}
Slots == 1..MaxEvents
AttachResults == {"attached", "threw", "rejected"}
HookData == "0x"

---------------------------------------------------------------------------
(* Pure parts of the handler *)

\* PoolKey with the token put first
PoolKeyTokenFirst(nftStrategy, hooks) ==
    [currency0 |-> nftStrategy, currency1 |-> ZeroAddress, fee |-> PoolFee,
     tickSpacing |-> TickSpacing, hooks |-> hooks]

\* index.ts 168-179: the pool key of a launch
PoolKey(nftStrategy, hooks) ==
    [currency0 |-> ZeroAddress, currency1 |-> nftStrategy, fee |-> PoolFee,
     tickSpacing |-> TickSpacing, hooks |-> hooks]

\* index.ts 212: the direction flag handed to the router
ZeroForOne == TRUE

\* MinOutOf without the absolute value
MinOutNoAbs(amount1Delta) == (amount1Delta * 90) \div 100

\* index.ts 248-249: minimum-out from the simulated token-leg delta
MinOutOf(amount1Delta) ==
    LET tokensOut == IF amount1Delta > 0 THEN amount1Delta ELSE -amount1Delta
    IN  (tokensOut * 90) \div 100

\* Number(bigint): exact below 2^53, which bounds every gas estimate here
NumberOf(b) == b

\* GasLimitOf dividing before it multiplies
GasLimitDivideFirst(gasEstimate) == NumberOf(gasEstimate * (120 \div 100))

\* index.ts 318: the gas limit from a successful estimate
GasLimitOf(gasEstimate) == NumberOf((gasEstimate * 120) \div 100)

\* InitialOverrides with the gas price of line 264 switched on
InitialOverridesWithPrice(ethIn) ==
    [value |-> ethIn, gasLimit |-> DefaultGasLimit, gasPrice |-> 200]

\* index.ts 261-265: the overrides object as first built
InitialOverrides(ethIn) == [value |-> ethIn, gasLimit |-> DefaultGasLimit]

\* InsufficientBalance with the comparison reversed
InsufficientBalanceReversed(balance, ethIn) == balance > ethIn

\* index.ts 282: the pre-flight balance test
InsufficientBalance(balance, ethIn) == balance < ethIn

\* index.ts 215: the deadline, from the clock in seconds
DeadlineOf(now) == now + DeadlineSeconds

---------------------------------------------------------------------------
(* Task records: the handler's locals, the calls it has made with what   *)
(* each returned, and how it ended                                        *)

NoKey == [currency0 |-> Unset, currency1 |-> Unset, fee |-> PoolFee,
          tickSpacing |-> TickSpacing, hooks |-> Unset]

IdleTask ==
    [pc |-> "idle", nftStrategy |-> Unset, transfer |-> "none",
     hooks |-> Unset, poolKey |-> NoKey, ethIn |-> Unset, deadline |-> Unset,
     minOut |-> 0, amount1Delta |-> 0, gasEstimate |-> 0,
     overrides |-> [value |-> Unset, gasLimit |-> Unset],
     calls |-> <<>>, outcome |-> "none", report |-> {}]

Call(op, args) == [op |-> op, args |-> args, result |-> "pending"]

\* the task after one more call is issued
Issue(t, op, args) == [t EXCEPT !.calls = Append(t.calls, Call(op, args))]

\* the task after its pending call, the last one, has returned
Returned(t, result) == [t EXCEPT !.calls[Len(t.calls)].result = result]

\* the seven positional arguments shared by staticCall, estimateGas and the
\* submitted swap, followed by the call's overrides
SwapArgs(t, minOut, overrides) ==
    <<t.ethIn, minOut, ZeroForOne, t.poolKey, HookData, WalletAddress,
      t.deadline, overrides>>

Running == ~exited

\* the handler executions of this run, started or not
Events == DOMAIN task

Ops(t) == {t.calls[k].op : k \in 1..Len(t.calls)}
Called(t, op) == op \in Ops(t)
Count(t, op) == Cardinality({k \in 1..Len(t.calls) : t.calls[k].op = op})
IndexOf(t, op) == CHOOSE k \in 1..Len(t.calls) : t.calls[k].op = op
CallOf(t, op) == t.calls[IndexOf(t, op)]
Failed(t, op) == Called(t, op) /\ CallOf(t, op).result = "fail"
Succeeded(t, op) == Called(t, op) /\ CallOf(t, op).result = "ok"

---------------------------------------------------------------------------
(* Start-up: module body and main() *)

Init ==
    /\ env \in [RequiredVars -> BOOLEAN]
    /\ HOOK_OVERRIDE \in {Unset} \cup HookAddresses
    /\ ETH_AMOUNT_IN \in Amounts
    /\ mainPc = "load"
    /\ exited = FALSE
    /\ exitCode = 0
    /\ wsOpen = FALSE
    /\ subscribed = FALSE
    /\ closeHandler = FALSE
    /\ nEvents = 0
    /\ task = [e \in Slots |-> IdleTask]

\* MissingEnv without the pool manager address, as in the older copy (492)
MissingEnvNoPoolManager ==
    \E v \in RequiredVars \ {"POOL_MANAGER_ADDRESS"} : ~env[v]

\* index.ts 53: the test on the required variables
MissingEnv == \E v \in RequiredVars : ~env[v]

\* process.exit(code)
Exit(code) ==
    /\ exited' = TRUE
    /\ exitCode' = code

\* index.ts 45-65 and 92: validation, then the provider and the first await
LoadModule ==
    /\ Running
    /\ mainPc = "load"
    /\ IF MissingEnv
         THEN /\ Exit(1)
              /\ mainPc' = "exited"
              /\ UNCHANGED wsOpen
         ELSE /\ wsOpen' = TRUE
              /\ mainPc' = "getNetwork"
              /\ UNCHANGED <<exited, exitCode>>
    /\ UNCHANGED <<env, HOOK_OVERRIDE, ETH_AMOUNT_IN, subscribed, closeHandler,
                   nEvents, task>>

\* index.ts 113 and 435: the two registrations main() ends with
Listen ==
    /\ subscribed' = TRUE
    /\ closeHandler' = TRUE
    /\ mainPc' = "listening"

\* index.ts 92-96: getNetwork returns; a rejection reaches main().catch (441)
GetNetworkReturn(ok) ==
    /\ Running
    /\ mainPc = "getNetwork"
    /\ IF ~ok
         THEN /\ Exit(1)
              /\ mainPc' = "exited"
              /\ UNCHANGED <<subscribed, closeHandler>>
         ELSE /\ mainPc' = IF HOOK_OVERRIDE # Unset THEN "listOfRouters"
                                                    ELSE "hookAddress"
              /\ UNCHANGED <<exited, exitCode, subscribed, closeHandler>>
    /\ UNCHANGED <<env, HOOK_OVERRIDE, ETH_AMOUNT_IN, wsOpen, nEvents, task>>

\* StartupHookReturn with the failure of the read reaching main().catch
StartupHookReturnFatal(ok) ==
    /\ Running
    /\ mainPc = "hookAddress"
    /\ IF ok
         THEN /\ mainPc' = "listOfRouters"
              /\ UNCHANGED <<exited, exitCode>>
         ELSE /\ Exit(1)
              /\ mainPc' = "exited"
    /\ UNCHANGED <<env, HOOK_OVERRIDE, ETH_AMOUNT_IN, subscribed, closeHandler,
                   wsOpen, nEvents, task>>

\* index.ts 96-108: the start-up hook read; its failure skips the router read
StartupHookReturn(ok) ==
    /\ Running
    /\ mainPc = "hookAddress"
    /\ IF ok
         THEN /\ mainPc' = "listOfRouters"
              /\ UNCHANGED <<subscribed, closeHandler>>
         ELSE Listen
    /\ UNCHANGED <<env, HOOK_OVERRIDE, ETH_AMOUNT_IN, exited, exitCode, wsOpen,
                   nEvents, task>>

\* index.ts 100-113: the router-whitelist read, tolerated either way
RouterReturn(ok) ==
    /\ Running
    /\ mainPc = "listOfRouters"
    /\ ok \in BOOLEAN
    /\ Listen
    /\ UNCHANGED <<env, HOOK_OVERRIDE, ETH_AMOUNT_IN, exited, exitCode, wsOpen,
                   nEvents, task>>

\* index.ts 435-438: the transport closes
WsClose ==
    /\ Running
    /\ wsOpen
    /\ wsOpen' = FALSE
    /\ IF closeHandler
         THEN Exit(1)
         ELSE UNCHANGED <<exited, exitCode>>
    /\ UNCHANGED <<env, HOOK_OVERRIDE, ETH_AMOUNT_IN, mainPc, subscribed,
                   closeHandler, nEvents, task>>

---------------------------------------------------------------------------
(* The NFTStrategyLaunched handler, index.ts 122-427.  Each On... is the  *)
(* code that runs when the awaited call returns, up to the next await.    *)

\* what the handler logs when it ends: the error alone (154, 199, 283, 352),
\* the error with the swap context (392-423), or the receipt (356-363)
ReasonOnly == {"reason"}
ReasonAndContext == {"reason", "context"}
Receipt == {"receipt"}

\* a return of the handler: aborted, failed or confirmed
Finish(t, outcome, report) ==
    [t EXCEPT !.pc = "done", !.outcome = outcome, !.report = report]

\* index.ts 164-186: with the hook resolved, build the key and read slot0
AfterHook(t, hooks) ==
    LET k == [t EXCEPT !.hooks = hooks,
                       !.poolKey = PoolKey(t.nftStrategy, hooks),
                       !.pc = "slot0"]
    IN  Issue(k, "getSlot0", <<k.poolKey>>)

\* ResolveHook asking the factory whether or not an override is set
ResolveHookAlwaysAsk(t) ==
    Issue([t EXCEPT !.pc = "hook"], "hookAddress", <<>>)

\* index.ts 147-151: the override wins, otherwise the factory is asked
ResolveHook(t) ==
    IF HOOK_OVERRIDE # Unset
      THEN AfterHook(t, HOOK_OVERRIDE)
      ELSE Issue([t EXCEPT !.pc = "hook"], "hookAddress", <<>>)

\* index.ts 122-151: the handler starts: Transfer listener, then the hook.
\* The listener is attached, or the attempt throws inside the try (138), or
\* the promise of token.on, which is discarded (134), rejects; the handler
\* goes on the same way after either failure.
OnLaunch(nftStrategy, attach) ==
    ResolveHook([IdleTask EXCEPT !.nftStrategy = nftStrategy,
                                 !.transfer = IF attach = "attached"
                                                THEN "attached"
                                                ELSE "failed"])

\* OnHook going on with the zero address when the lookup throws
OnHookTolerant(t, ok, hooks) ==
    AfterHook(Returned(t, IF ok THEN "ok" ELSE "fail"),
              IF ok THEN hooks ELSE ZeroAddress)

\* index.ts 150-162: factory.hookAddress() returned or threw
OnHook(t, ok, hooks) ==
    IF ok THEN AfterHook(Returned(t, "ok"), hooks)
          ELSE Finish(Returned(t, "fail"), "abortHook", ReasonOnly)

\* PrepareAndSimulate going to the balance read without simulating
PrepareNoSimulate(t, now) ==
    Issue([t EXCEPT !.ethIn = ETH_AMOUNT_IN,
                    !.deadline = DeadlineOf(now),
                    !.overrides = InitialOverrides(ETH_AMOUNT_IN),
                    !.pc = "balance"],
          "getBalance", <<WalletAddress>>)

\* index.ts 209-233: the swap parameters and the simulation call
PrepareAndSimulate(t, now) ==
    LET p == [t EXCEPT !.ethIn = ETH_AMOUNT_IN,
                       !.deadline = DeadlineOf(now),
                       !.pc = "sim"]
    IN  Issue(p, "staticCall", SwapArgs(p, 0, [value |-> p.ethIn]))

\* OnSlot0 going on to the simulation when the read throws
OnSlot0Tolerant(t, ok, now) ==
    PrepareAndSimulate(Returned(t, IF ok THEN "ok" ELSE "fail"), now)

\* index.ts 185-233: poolManager.getSlot0 returned or threw
OnSlot0(t, ok, now) ==
    IF ok THEN PrepareAndSimulate(Returned(t, "ok"), now)
          ELSE Finish(Returned(t, "fail"), "abortPool", ReasonOnly)

\* OnSim returning from the handler when the simulation throws
OnSimAbort(t, ok, amount1Delta) ==
    LET r == Returned(t, IF ok THEN "ok" ELSE "fail")
    IN  IF ~ok
          THEN Finish(r, "abortSim", ReasonOnly)
          ELSE Issue([r EXCEPT !.amount1Delta = amount1Delta,
                               !.minOut = MinOutOf(amount1Delta),
                               !.overrides = InitialOverrides(r.ethIn),
                               !.pc = "balance"],
                     "getBalance", <<WalletAddress>>)

\* index.ts 221-280: the simulation returned or threw; then the balance read
OnSim(t, ok, amount1Delta) ==
    LET r == Returned(t, IF ok THEN "ok" ELSE "fail")
    IN  Issue([r EXCEPT !.amount1Delta = IF ok THEN amount1Delta ELSE @,
                        !.minOut = IF ok THEN MinOutOf(amount1Delta) ELSE 0,
                        !.overrides = InitialOverrides(r.ethIn),
                        !.pc = "balance"],
              "getBalance", <<WalletAddress>>)

\* Estimate building the swap parameters anew, a second later
EstimateRebuilt(t) ==
    Issue([t EXCEPT !.pc = "estimate"], "estimateGas",
          SwapArgs([t EXCEPT !.deadline = @ + 1], t.minOut, [value |-> t.ethIn]))

\* index.ts 302-314: the gas estimation call
Estimate(t) ==
    Issue([t EXCEPT !.pc = "estimate"], "estimateGas",
          SwapArgs(t, t.minOut, [value |-> t.ethIn]))

\* what the balance read returned, as against the amount to send
BalanceSeen(ok, balance, ethIn) ==
    IF ~ok THEN "fail" ELSE IF balance < ethIn THEN "low" ELSE "enough"

\* OnBalance returning from the handler when the read throws
OnBalanceStrict(t, ok, balance) ==
    LET r == Returned(t, BalanceSeen(ok, balance, t.ethIn))
    IN  IF ~ok \/ InsufficientBalance(balance, t.ethIn)
          THEN Finish(r, "abortBalance", ReasonOnly)
          ELSE Estimate(r)

\* index.ts 279-314: provider.getBalance returned or threw
OnBalance(t, ok, balance) ==
    LET r == Returned(t, BalanceSeen(ok, balance, t.ethIn))
    IN  IF ok /\ InsufficientBalance(balance, t.ethIn)
          THEN Finish(r, "abortBalance", ReasonOnly)
          ELSE Estimate(r)

\* Submit with one overrides object kept at module scope for all executions
SubmitShared(t) ==
    Issue([t EXCEPT !.pc = "submit"], "swap",
          SwapArgs(t, t.minOut, task[1].overrides))

\* index.ts 327-336: the swap is submitted with the overrides as they stand
Submit(t) ==
    Issue([t EXCEPT !.pc = "submit"], "swap", SwapArgs(t, t.minOut, t.overrides))

\* OnEstimate with the estimation failure reaching the outer catch
OnEstimateAbort(t, ok, gasEstimate) ==
    LET r == Returned(t, IF ok THEN "ok" ELSE "fail")
    IN  IF ~ok
          THEN Finish(r, "Failed", ReasonAndContext)
          ELSE Submit([r EXCEPT !.gasEstimate = gasEstimate,
                                !.overrides.gasLimit = GasLimitOf(gasEstimate)])

\* index.ts 304-336: estimateGas returned or threw; then the submission
OnEstimate(t, ok, gasEstimate) ==
    LET r == Returned(t, IF ok THEN "ok" ELSE "fail")
    IN  Submit([r EXCEPT !.gasEstimate = IF ok THEN gasEstimate ELSE @,
                         !.overrides.gasLimit =
                            IF ok THEN GasLimitOf(gasEstimate) ELSE @])

\* OnSubmit going back to the gas estimation when the submission throws
OnSubmitBacktrack(t, ok) ==
    IF ok THEN Issue([Returned(t, "ok") EXCEPT !.pc = "wait"], "wait", <<>>)
          ELSE Estimate(Returned(t, "fail"))

\* OnSubmit waiting, after a failed submission, for a retry nobody makes
OnSubmitParked(t, ok) ==
    IF ok THEN Issue([Returned(t, "ok") EXCEPT !.pc = "wait"], "wait", <<>>)
          ELSE [Returned(t, "fail") EXCEPT !.pc = "retry"]

\* index.ts 327-350 and 391-424: the submission returned a response or threw
OnSubmit(t, ok) ==
    IF ok THEN Issue([Returned(t, "ok") EXCEPT !.pc = "wait"], "wait", <<>>)
          ELSE Finish(Returned(t, "fail"), "Failed", ReasonAndContext)

WaitResults == {"receipt", "null", "throw"}

\* OnWait submitting the swap again when the confirmation throws
OnWaitRetry(t, res) ==
    CASE res = "receipt" -> Finish(Returned(t, res), "Confirmed", Receipt)
      [] res = "null" -> Finish(Returned(t, res), "NullReceipt", ReasonOnly)
      [] OTHER -> Submit(Returned(t, res))

\* index.ts 350-424: tx.wait() returned a receipt or null, or threw
OnWait(t, res) ==
    CASE res = "receipt" -> Finish(Returned(t, res), "Confirmed", Receipt)
      [] res = "null" -> Finish(Returned(t, res), "NullReceipt", ReasonOnly)
      [] OTHER -> Finish(Returned(t, res), "Failed", ReasonAndContext)

TaskFrame == UNCHANGED <<env, HOOK_OVERRIDE, ETH_AMOUNT_IN, mainPc, exited,
                         exitCode, wsOpen, subscribed, closeHandler, nEvents>>

\* index.ts 113-122: an event arrives over the open socket and its handler
\* starts.  A rejection of the discarded token.on promise (134) is handled by
\* nobody: the runtime either ends the process with code 1 (the default of
\* the node:20 image, part_000 line 1) or only warns.
LaunchEvent(nftStrategy, attach, fatal) ==
    /\ Running
    /\ subscribed
    /\ wsOpen
    /\ nEvents + 1 \in Events
    /\ nEvents' = nEvents + 1
    /\ task' = [task EXCEPT ![nEvents + 1] = OnLaunch(nftStrategy, attach)]
    /\ IF attach = "rejected" /\ fatal
         THEN Exit(1)
         ELSE UNCHANGED <<exited, exitCode>>
    /\ UNCHANGED <<env, HOOK_OVERRIDE, ETH_AMOUNT_IN, mainPc, wsOpen,
                   subscribed, closeHandler>>

\* Resume with a failed attempt ending the process
ResumeFatal(i, at, t) ==
    /\ Running
    /\ task[i].pc = at
    /\ task' = [task EXCEPT ![i] = t]
    /\ IF t.outcome \in {"abortHook", "abortPool", "abortBalance", "Failed",
                          "NullReceipt"}
         THEN Exit(1)
         ELSE UNCHANGED <<exited, exitCode>>
    /\ UNCHANGED <<env, HOOK_OVERRIDE, ETH_AMOUNT_IN, mainPc, wsOpen, subscribed,
                   closeHandler, nEvents>>

\* a suspended task resumes at the await named by its pc
Resume(i, at, t) ==
    /\ Running
    /\ task[i].pc = at
    /\ task' = [task EXCEPT ![i] = t]
    /\ TaskFrame

HookReturn(i, ok, hooks) == Resume(i, "hook", OnHook(task[i], ok, hooks))

Slot0Return(i, ok, now) == Resume(i, "slot0", OnSlot0(task[i], ok, now))

SimReturn(i, ok, amount1Delta) ==
    Resume(i, "sim", OnSim(task[i], ok, amount1Delta))

BalanceReturn(i, ok, balance) ==
    Resume(i, "balance", OnBalance(task[i], ok, balance))

EstimateReturn(i, ok, gasEstimate) ==
    Resume(i, "estimate", OnEstimate(task[i], ok, gasEstimate))

SubmitReturn(i, ok) == Resume(i, "submit", OnSubmit(task[i], ok))

WaitReturn(i, res) == Resume(i, "wait", OnWait(task[i], res))

\* the call execution i awaits returns or throws
TaskStep(i) ==
    \/ \E ok \in BOOLEAN, h \in HookAddresses : HookReturn(i, ok, h)
    \/ \E ok \in BOOLEAN, now \in Times : Slot0Return(i, ok, now)
    \/ \E ok \in BOOLEAN, d \in SimDeltas : SimReturn(i, ok, d)
    \/ \E ok \in BOOLEAN, b \in Balances : BalanceReturn(i, ok, b)
    \/ \E ok \in BOOLEAN, g \in GasEstimates : EstimateReturn(i, ok, g)
    \/ \E ok \in BOOLEAN : SubmitReturn(i, ok)
    \/ \E res \in WaitResults : WaitReturn(i, res)

---------------------------------------------------------------------------

Next ==
    \/ LoadModule
    \/ \E ok \in BOOLEAN : GetNetworkReturn(ok)
    \/ \E ok \in BOOLEAN : StartupHookReturn(ok)
    \/ \E ok \in BOOLEAN : RouterReturn(ok)
    \/ WsClose
    \/ \E a \in Addresses, at \in AttachResults, fatal \in BOOLEAN :
          LaunchEvent(a, at, fatal)
    \/ \E i \in Events, ok \in BOOLEAN, h \in HookAddresses : HookReturn(i, ok, h)
    \/ \E i \in Events, ok \in BOOLEAN, now \in Times : Slot0Return(i, ok, now)
    \/ \E i \in Events, ok \in BOOLEAN, d \in SimDeltas : SimReturn(i, ok, d)
    \/ \E i \in Events, ok \in BOOLEAN, b \in Balances : BalanceReturn(i, ok, b)
    \/ \E i \in Events, ok \in BOOLEAN, g \in GasEstimates : EstimateReturn(i, ok, g)
    \/ \E i \in Events, ok \in BOOLEAN : SubmitReturn(i, ok)
    \/ \E i \in Events, res \in WaitResults : WaitReturn(i, res)

Spec == Init /\ [][Next]_vars

(* The simulation step over a wide range of deltas: a task suspended at   *)
(* the simulation call, as the handler leaves it, resumed with each delta *)

TaskAtSim(nftStrategy) ==
    PrepareAndSimulate(
        Returned(AfterHook([IdleTask EXCEPT !.nftStrategy = nftStrategy,
                                            !.transfer = "attached"],
                           MaxAddr), "ok"),
        CHOOSE now \in Times : TRUE)

InitSim ==
    /\ env = [v \in RequiredVars |-> TRUE]
    /\ HOOK_OVERRIDE = MaxAddr
    /\ ETH_AMOUNT_IN \in Amounts
    /\ mainPc = "listening"
    /\ exited = FALSE
    /\ exitCode = 0
    /\ wsOpen = TRUE
    /\ subscribed = TRUE
    /\ closeHandler = TRUE
    /\ nEvents = 1
    /\ \E a \in Addresses :
          task = [e \in Slots |-> IF e = 1 THEN TaskAtSim(a) ELSE IdleTask]

NextSim ==
    \/ \E ok \in BOOLEAN, d \in WideSimDeltas : SimReturn(1, ok, d)
    \/ \E ok \in BOOLEAN, b \in Balances : BalanceReturn(1, ok, b)
    \/ \E ok \in BOOLEAN, g \in GasEstimates : EstimateReturn(1, ok, g)
    \/ \E ok \in BOOLEAN : SubmitReturn(1, ok)
    \/ \E res \in WaitResults : WaitReturn(1, res)

SpecSim == InitSim /\ [][NextSim]_vars

(* The gas estimation over a wide range of estimates: a task suspended   *)
(* at the estimation call, as the handler leaves it                       *)

TaskAtEstimate(nftStrategy, ethIn) ==
    OnBalance(OnSim(TaskAtSim(nftStrategy), TRUE, MaxDelta), TRUE, ethIn)

InitGas ==
    /\ env = [v \in RequiredVars |-> TRUE]
    /\ HOOK_OVERRIDE = MaxAddr
    /\ ETH_AMOUNT_IN \in Amounts
    /\ mainPc = "listening"
    /\ exited = FALSE
    /\ exitCode = 0
    /\ wsOpen = TRUE
    /\ subscribed = TRUE
    /\ closeHandler = TRUE
    /\ nEvents = 1
    /\ \E a \in Addresses :
          task = [e \in Slots |-> IF e = 1 THEN TaskAtEstimate(a, ETH_AMOUNT_IN)
                                          ELSE IdleTask]

NextGas ==
    \/ \E ok \in BOOLEAN, g \in WideGasEstimates : EstimateReturn(1, ok, g)
    \/ \E ok \in BOOLEAN : SubmitReturn(1, ok)
    \/ \E res \in WaitResults : WaitReturn(1, res)

SpecGas == InitGas /\ [][NextGas]_vars

(* The runs in which the start-up reads of the factory fail: the hook    *)
(* read when no override is set, the router-whitelist read otherwise      *)

NextStartupFailures ==
    \/ LoadModule
    \/ \E ok \in BOOLEAN : GetNetworkReturn(ok)
    \/ StartupHookReturn(FALSE)
    \/ RouterReturn(FALSE)
    \/ WsClose
    \/ \E a \in Addresses, at \in AttachResults, fatal \in BOOLEAN :
          LaunchEvent(a, at, fatal)
    \/ \E i \in Slots : TaskStep(i)

SpecStartupFailures == Init /\ [][NextStartupFailures]_vars

(* Every call an execution awaits eventually returns or throws *)

SpecLive == Spec /\ \A i \in Slots : WF_vars(TaskStep(i))

(* Two deliveries of the event to a process that has started up: the     *)
(* two executions of the handler interleave at their awaits               *)

Pair == {1, 2}

InitPair ==
    /\ env = [v \in RequiredVars |-> TRUE]
    /\ HOOK_OVERRIDE \in {Unset} \cup HookAddresses
    /\ ETH_AMOUNT_IN \in Amounts
    /\ mainPc = "listening"
    /\ exited = FALSE
    /\ exitCode = 0
    /\ wsOpen = TRUE
    /\ subscribed = TRUE
    /\ closeHandler = TRUE
    /\ nEvents = 0
    /\ task = [e \in Pair |-> IdleTask]

NextPair ==
    \/ WsClose
    \/ \E a \in Addresses, at \in AttachResults, fatal \in BOOLEAN :
          LaunchEvent(a, at, fatal)
    \/ \E i \in Pair, ok \in BOOLEAN, h \in HookAddresses : HookReturn(i, ok, h)
    \/ \E i \in Pair, ok \in BOOLEAN, now \in Times : Slot0Return(i, ok, now)
    \/ \E i \in Pair, ok \in BOOLEAN, d \in SimDeltas : SimReturn(i, ok, d)
    \/ \E i \in Pair, ok \in BOOLEAN, b \in Balances : BalanceReturn(i, ok, b)
    \/ \E i \in Pair, ok \in BOOLEAN, g \in GasEstimates : EstimateReturn(i, ok, g)
    \/ \E i \in Pair, ok \in BOOLEAN : SubmitReturn(i, ok)
    \/ \E i \in Pair, res \in WaitResults : WaitReturn(i, res)

SpecPair == InitPair /\ [][NextPair]_vars

---------------------------------------------------------------------------
(* Properties *)

SwapOps == {"staticCall", "estimateGas", "swap"}
Abs(x) == IF x < 0 THEN -x ELSE x
Min(x, y) == IF x <= y THEN x ELSE y
Max(x, y) == IF x <= y THEN y ELSE x
Before(t, a, b) == IndexOf(t, a) < IndexOf(t, b)
ResultOf(t, op) == IF Called(t, op) THEN CallOf(t, op).result ELSE "none"

\* C1: when the balance read returns less than the amount to send, the
\* handler returns there: neither the gas estimation nor the swap
\* submission is ever called for that event.
C1_LowBalanceNeverSubmits ==
    \A i \in Events :
        ResultOf(task[i], "getBalance") = "low" =>
            /\ ~Called(task[i], "estimateGas")
            /\ ~Called(task[i], "swap")
            /\ task[i].pc = "done"
            /\ task[i].outcome = "abortBalance"

C1_Witness ==
    \E i \in Events :
        /\ ResultOf(task[i], "getBalance") = "low"
        /\ task[i].pc = "done"

\* C2: whatever the calls return, one event leads to at most one swap
\* submission; a submission or confirmation that failed is the last call
\* of its handler.
C2_AtMostOneSubmission ==
    \A i \in Events :
        /\ Count(task[i], "swap") <= 1
        /\ \A k \in 1..Len(task[i].calls) :
              ( /\ task[i].calls[k].op \in {"swap", "wait"}
                /\ task[i].calls[k].result \in {"fail", "null", "throw"} )
              => /\ k = Len(task[i].calls)
                 /\ task[i].pc = "done"

C2_Witness ==
    \E i \in Events :
        /\ ResultOf(task[i], "wait") = "throw"
        /\ Count(task[i], "swap") = 1
        /\ task[i].outcome = "Failed"

\* C3: the pool key of a launch has the numerically smaller of the native
\* and the token address as currency0 and the larger as currency1, and the
\* direction flag given to the router is true exactly when the native
\* address is currency0.
C3_CurrencyOrdering ==
    \A i \in Events :
        /\ task[i].poolKey # NoKey =>
              /\ task[i].poolKey.currency0 = Min(ZeroAddress, task[i].nftStrategy)
              /\ task[i].poolKey.currency1 = Max(ZeroAddress, task[i].nftStrategy)
        /\ \A k \in 1..Len(task[i].calls) :
              task[i].calls[k].op \in SwapOps =>
                 /\ task[i].calls[k].args[4] = task[i].poolKey
                 /\ task[i].calls[k].args[3] =
                       (task[i].calls[k].args[4].currency0 = ZeroAddress)

C3_Witness ==
    \E i \in Events :
        /\ Called(task[i], "swap")
        /\ task[i].poolKey.currency1 = task[i].nftStrategy
        /\ task[i].nftStrategy > ZeroAddress

\* C4: a swap submission comes after a pool-existence read and then a
\* simulation of the same attempt, in this order and on the same pool key;
\* when the pool-existence read fails no simulation is made.
C4_ReadThenSimulateThenSubmit ==
    \A i \in Events :
        /\ Called(task[i], "swap") =>
              /\ Succeeded(task[i], "getSlot0")
              /\ Called(task[i], "staticCall")
              /\ Before(task[i], "getSlot0", "staticCall")
              /\ Before(task[i], "staticCall", "swap")
              /\ CallOf(task[i], "getSlot0").args[1] = CallOf(task[i], "swap").args[4]
              /\ CallOf(task[i], "staticCall").args[4] = CallOf(task[i], "swap").args[4]
        /\ Failed(task[i], "getSlot0") => ~Called(task[i], "staticCall")

C4_Witness ==
    \E i \in Events :
        /\ Called(task[i], "swap")
        /\ Before(task[i], "getSlot0", "staticCall")
        /\ Before(task[i], "staticCall", "swap")

\* C6: when the pool-existence read fails the handler returns: no
\* simulation, no balance read, no gas estimation and no submission is made
\* for that event.
C6_PoolReadFailureAbandons ==
    \A i \in Events :
        Failed(task[i], "getSlot0") =>
            /\ Ops(task[i]) \cap {"staticCall", "getBalance", "estimateGas",
                                  "swap", "wait"} = {}
            /\ task[i].pc = "done"
            /\ task[i].outcome = "abortPool"

C6_Witness ==
    \E i \in Events :
        /\ Failed(task[i], "getSlot0")
        /\ task[i].outcome = "abortPool"

\* C7: when the hook-address lookup throws the handler returns: no pool key
\* is built, and no pool read, simulation or submission is made for that
\* event.
C7_HookFailureAborts ==
    \A i \in Events :
        Failed(task[i], "hookAddress") =>
            /\ task[i].poolKey = NoKey
            /\ Ops(task[i]) = {"hookAddress"}
            /\ task[i].pc = "done"
            /\ task[i].outcome = "abortHook"

C7_Witness ==
    \E i \in Events :
        /\ Failed(task[i], "hookAddress")
        /\ task[i].outcome = "abortHook"

\* C8: a failed simulation does not end the attempt: minOut is 0, the
\* balance read follows, then (unless the balance is too low) the gas
\* estimation and the submission, both carrying a minimum-out of 0.
C8_SimulationFailureContinues ==
    \A i \in Events :
        Failed(task[i], "staticCall") =>
            /\ task[i].minOut = 0
            /\ Called(task[i], "getBalance")
            /\ ResultOf(task[i], "getBalance") \in {"enough", "fail"}
                  => /\ Called(task[i], "estimateGas")
                     /\ CallOf(task[i], "estimateGas").args[2] = 0
            /\ ResultOf(task[i], "estimateGas") \in {"ok", "fail"}
                  => /\ Called(task[i], "swap")
                     /\ CallOf(task[i], "swap").args[2] = 0

C8_Witness ==
    \E i \in Events :
        /\ Failed(task[i], "staticCall")
        /\ Called(task[i], "swap")
        /\ CallOf(task[i], "swap").args[2] = 0

\* C9: after a successful simulation with token-leg delta d, of either sign
\* or zero, minOut is floor(|d| * 9 / 10): 0 for d = 0 and never above |d|.
C9_MinOutIsNineTenths ==
    \A i \in Events :
        Succeeded(task[i], "staticCall") =>
            /\ task[i].minOut = (Abs(task[i].amount1Delta) * 9) \div 10
            /\ task[i].minOut <= Abs(task[i].amount1Delta)
            /\ task[i].amount1Delta = 0 => task[i].minOut = 0

C9_Witness ==
    \E i \in Events :
        /\ Succeeded(task[i], "staticCall")
        /\ task[i].amount1Delta < 0
        /\ task[i].minOut > 0
        /\ task[i].minOut < Abs(task[i].amount1Delta)

\* C10: a failed gas estimation does not end the attempt: the swap is
\* submitted with the fallback gas limit of 1,200,000.
C10_EstimateFailureUsesFallback ==
    \A i \in Events :
        Failed(task[i], "estimateGas") =>
            /\ Called(task[i], "swap")
            /\ CallOf(task[i], "swap").args[8].gasLimit = DefaultGasLimit
            /\ CallOf(task[i], "swap").args[8].gasLimit # 0
            /\ \A g \in GasEstimates :
                  CallOf(task[i], "swap").args[8].gasLimit # GasLimitOf(g)

C10_Witness ==
    \E i \in Events :
        /\ Failed(task[i], "estimateGas")
        /\ Called(task[i], "swap")
        /\ task[i].overrides.gasLimit = DefaultGasLimit

Rank(op) ==
    CASE op = "hookAddress" -> 1
      [] op = "getSlot0" -> 2
      [] op = "staticCall" -> 3
      [] op = "getBalance" -> 4
      [] op = "estimateGas" -> 5
      [] op = "swap" -> 6
      [] op = "wait" -> 7

PcRank(pc) ==
    CASE pc = "idle" -> 0
      [] pc = "hook" -> 1
      [] pc = "slot0" -> 2
      [] pc = "sim" -> 3
      [] pc = "balance" -> 4
      [] pc = "estimate" -> 5
      [] pc = "submit" -> 6
      [] pc = "wait" -> 7
      [] pc = "done" -> 8

C12_Ordered(t) ==
    /\ \A k, l \in 1..Len(t.calls) :
          k < l => /\ Rank(t.calls[k].op) < Rank(t.calls[l].op)
                   /\ t.calls[k].result # "pending"
    /\ Called(t, "swap") =>
          /\ t.hooks # Unset
          /\ t.poolKey # NoKey
          /\ {"getSlot0", "staticCall", "getBalance", "estimateGas"} \subseteq Ops(t)
          /\ HOOK_OVERRIDE = Unset => Succeeded(t, "hookAddress")
    /\ (t.pc = "done" /\ Called(t, "swap")) =>
          t.outcome \in {"Confirmed", "Failed", "NullReceipt"}
    /\ t.outcome = "Confirmed" <=> ResultOf(t, "wait") = "receipt"
    /\ t.outcome # "none" <=> t.pc = "done"

\* C12: within one attempt the steps come in the handler's order (hook,
\* pool key, pool read, simulation, gas parameters, submission, then
\* Confirmed or a failure), none twice and never back to an earlier one: no
\* swap before the hook is resolved and the key built, Confirmed only after
\* a receipt, and a finished attempt never resumes.
C12_StrictOrder ==
    /\ [](\A i \in Events : C12_Ordered(task[i]))
    /\ [][\A i \in Events :
            /\ PcRank(task'[i].pc) >= PcRank(task[i].pc)
            /\ task'[i] # task[i] => PcRank(task'[i].pc) > PcRank(task[i].pc)
            /\ task[i].pc = "done" => task'[i] = task[i]]_vars

C12_Witness ==
    \E i \in Events :
        /\ task[i].outcome = "Confirmed"
        /\ Len(task[i].calls) >= 6
        /\ task[i].calls[Len(task[i].calls)].op = "wait"

\* what an execution that ran alone holds, given its token and the responses
\* recorded in its own call log
C13_Alone(t) ==
    /\ t.hooks # Unset =>
          /\ (HOOK_OVERRIDE # Unset => t.hooks = HOOK_OVERRIDE)
          /\ t.poolKey = PoolKey(t.nftStrategy, t.hooks)
    /\ t.hooks = Unset => t.poolKey = NoKey
    /\ t.ethIn = IF Called(t, "staticCall") THEN ETH_AMOUNT_IN ELSE Unset
    /\ t.minOut = IF Succeeded(t, "staticCall") THEN MinOutOf(t.amount1Delta)
                                                ELSE 0
    /\ Called(t, "swap") =>
          LET a == CallOf(t, "swap").args
          IN  /\ a[1] = ETH_AMOUNT_IN
              /\ a[2] = t.minOut
              /\ a[4] = t.poolKey
              /\ a[4].currency1 = t.nftStrategy
              /\ a[8].value = ETH_AMOUNT_IN
              /\ a[8].gasLimit = IF Succeeded(t, "estimateGas")
                                   THEN GasLimitOf(t.gasEstimate)
                                   ELSE DefaultGasLimit
    /\ t.outcome =
          CASE Failed(t, "hookAddress") -> "abortHook"
            [] Failed(t, "getSlot0") -> "abortPool"
            [] ResultOf(t, "getBalance") = "low" -> "abortBalance"
            [] Failed(t, "swap") -> "Failed"
            [] ResultOf(t, "wait") = "receipt" -> "Confirmed"
            [] ResultOf(t, "wait") = "null" -> "NullReceipt"
            [] ResultOf(t, "wait") = "throw" -> "Failed"
            [] OTHER -> "none"

\* a step changes one execution at most, and only a delivery starts one
C13_Step ==
    /\ \A i, j \in Pair :
          (task[i]' # task[i] /\ task[j]' # task[j]) => i = j
    /\ nEvents' # nEvents =>
          /\ nEvents' = nEvents + 1
          /\ task[nEvents + 1].pc = "idle"
          /\ task'[nEvents + 1].pc # "idle"
    /\ nEvents' = nEvents =>
          \A i \in Pair : task[i].pc = "idle" => task[i]' = task[i]

\* C13: each delivered launch event starts exactly one execution of the
\* handler, and concurrent executions do not interfere: under every
\* interleaving each execution's pool key, amount-in, minimum-out, gas limit
\* and outcome are those it has when run alone with the same responses, and
\* a step of one execution changes no other.
C13_NoInterference ==
    /\ [](\A i \in Pair : /\ (i <= nEvents) <=> (task[i].pc # "idle")
                           /\ C13_Alone(task[i]))
    /\ [][C13_Step]_vars

C13_Witness ==
    /\ task[1].pc = "wait"
    /\ task[2].pc = "wait"
    /\ task[1].nftStrategy # task[2].nftStrategy
    /\ CallOf(task[1], "swap").args[8].gasLimit
          # CallOf(task[2], "swap").args[8].gasLimit
    /\ task[1].minOut # task[2].minOut

\* C14: once the transport has been opened and has closed, the process has
\* terminated with exit code 1 (so that no launch event is handled and no
\* task makes a call after the close).
C14_CloseExits ==
    (mainPc # "load" /\ ~wsOpen) => (exited /\ exitCode = 1)


\* C15: an execution that ended on a submission or confirmation failure of
\* the swap (the submission threw, the wait threw, or the receipt was null)
\* has reported a reason together with the swap context.
C15_FailureReportsContext ==
    \A i \in Events :
        (task[i].pc = "done"
            /\ (Failed(task[i], "swap")
                  \/ ResultOf(task[i], "wait") \in {"null", "throw"}))
        => task[i].report = ReasonAndContext


\* the failures of an attempt: calls that threw, the balance found too low,
\* the receipt found null
FailureResults == {"fail", "low", "null", "throw"}
Failures(t) == {k \in 1..Len(t.calls) : t.calls[k].result \in FailureResults}

\* a step on which an attempt meets a failure leaves the process, the socket
\* and the subscription as they are, and every other attempt too
C16_FailureStep ==
    \A i \in Events :
        Failures(task'[i]) # Failures(task[i]) =>
            /\ UNCHANGED <<exited, exitCode, subscribed, wsOpen, closeHandler,
                           mainPc, nEvents>>
            /\ \A j \in Events \ {i} : task'[j] = task[j]

\* after a failure, while the process runs: the subscription stands and the
\* next event is accepted, and every attempt in flight can go on
C16_StillServing ==
    \A i \in Events :
        (Failures(task[i]) # {} /\ ~exited) =>
            /\ subscribed
            /\ (wsOpen /\ nEvents + 1 \in Events) =>
                  ENABLED (\E a \in Addresses : LaunchEvent(a, "attached", FALSE))
            /\ \A j \in Events :
                  task[j].pc \notin {"idle", "done"} => ENABLED TaskStep(j)

\* C16: no failure inside a launch attempt (hook lookup, pool read,
\* simulation, balance read, low balance, gas estimation, submission,
\* confirmation) terminates the process or removes the subscription; after
\* it later events are still accepted and other attempts in flight go on.
C16_FailuresAreContained ==
    /\ []C16_StillServing
    /\ [][C16_FailureStep]_vars

C16_Witness ==
    /\ ~exited
    /\ subscribed
    /\ \E i, j \in Events :
          /\ i < j
          /\ task[i].outcome \in {"abortHook", "abortPool", "abortBalance",
                                  "Failed", "NullReceipt"}
          /\ task[j].outcome = "Confirmed"


\* C17: when a required configuration value is missing the process
\* establishes no connection and no subscription and, once the module has
\* run, has exited with code 1; a subscription exists only in runs whose
\* five required values are all present.
C17_MissingConfigIsFatal ==
    /\ (\E v \in RequiredVars : ~env[v]) =>
          /\ ~wsOpen
          /\ ~subscribed
          /\ nEvents = 0
          /\ mainPc \in {"load", "exited"}
          /\ mainPc = "exited" => (exited /\ exitCode = 1)
          /\ mainPc = "load" => ~exited
    /\ subscribed => \A v \in RequiredVars : env[v]

C17_Witness ==
    /\ \E v \in RequiredVars : ~env[v]
    /\ mainPc = "exited"
    /\ exited
    /\ exitCode = 1


\* C18: when an execution starts and the attach of the Transfer listener
\* fails, the execution still goes on to the hook resolution, and the process
\* is not terminated by that failure.
C18_AttachFailureHarmless ==
    [][\A i \in Events :
          (task[i].pc = "idle" /\ task'[i].pc # "idle"
              /\ task'[i].transfer = "failed")
          => /\ task'[i].pc \in {"hook", "slot0"}
             /\ exited' = exited
             /\ exitCode' = exitCode]_vars


C20_GasLimitIsEstimatePlusFifth ==
    \A i \in Events :
        (Succeeded(task[i], "estimateGas") /\ Called(task[i], "swap")) =>
            LET g == task[i].gasEstimate
                limit == CallOf(task[i], "swap").args[8].gasLimit
            IN  /\ limit = (g * 120) \div 100
                /\ 100 * limit <= 120 * g
                /\ 120 * g < 100 * (limit + 1)
                /\ limit >= g

C20_Witness ==
    \E i \in Events :
        /\ Succeeded(task[i], "estimateGas")
        /\ Succeeded(task[i], "swap")
        /\ task[i].gasEstimate = 7
        /\ CallOf(task[i], "swap").args[8].gasLimit = 8


\* the calls of an execution that carry the swap parameters
SwapCalls(t) == {k \in 1..Len(t.calls) : t.calls[k].op \in SwapOps}

\* C21: the swap parameters are built once per attempt: the simulation, the
\* gas estimation and the submission of one attempt carry the same
\* amount-in, direction, pool key, hook data, receiver and deadline, each
\* attaches a value equal to amount-in, and the estimation and the
\* submission carry the same minimum-out.
C21_OneSwapIntent ==
    \A i \in Events :
        LET t == task[i]
        IN  /\ \A k, l \in SwapCalls(t) :
                  \A f \in {1, 3, 4, 5, 6, 7} :
                      t.calls[k].args[f] = t.calls[l].args[f]
            /\ \A k \in SwapCalls(t) :
                  /\ t.calls[k].args[8].value = t.calls[k].args[1]
                  /\ t.calls[k].args[1] = ETH_AMOUNT_IN
                  /\ t.calls[k].args[4].currency1 = t.nftStrategy
            /\ (Called(t, "estimateGas") /\ Called(t, "swap")) =>
                  CallOf(t, "estimateGas").args[2] = CallOf(t, "swap").args[2]

C21_Witness ==
    \E i \in Events :
        /\ Succeeded(task[i], "staticCall")
        /\ Succeeded(task[i], "estimateGas")
        /\ Called(task[i], "swap")
        /\ CallOf(task[i], "swap").args[2] > 0
        /\ CallOf(task[i], "staticCall").args[2] = 0


\* the step main() takes when a start-up read of the factory has failed
C22_Step ==
    (mainPc \in {"hookAddress", "listOfRouters"} /\ mainPc' # mainPc) =>
        /\ mainPc' = "listening"
        /\ subscribed'
        /\ closeHandler'
        /\ ~exited'

\* C22: at start-up a failure of the initial hook-address read or of the
\* router-whitelist read is tolerated: the process does not exit on it, and
\* the launch subscription and the close handler are established after it.
C22_StartupReadFailuresTolerated ==
    /\ [](/\ mainPc \in {"hookAddress", "listOfRouters"} => ~exited
          /\ mainPc = "listening" => (subscribed /\ closeHandler)
          /\ subscribed => mainPc = "listening")
    /\ [][C22_Step]_vars

C22_Witness ==
    /\ HOOK_OVERRIDE = Unset
    /\ mainPc = "listening"
    /\ subscribed
    /\ closeHandler
    /\ ~exited
    /\ \E i \in Events : task[i].outcome = "Confirmed"


\* C23: when the balance read throws the attempt is not aborted: the gas
\* estimation is called and the swap is submitted once the estimation has
\* returned; the balance check aborts only on a read that succeeded and
\* found less than amount-in.
C23_BalanceReadFailureGoesOn ==
    \A i \in Events :
        LET t == task[i]
        IN  /\ Failed(t, "getBalance") =>
                  /\ t.outcome # "abortBalance"
                  /\ Called(t, "estimateGas")
                  /\ ResultOf(t, "estimateGas") # "pending" => Called(t, "swap")
            /\ t.outcome = "abortBalance" <=> ResultOf(t, "getBalance") = "low"
            /\ ResultOf(t, "getBalance") = "low" => ~Called(t, "estimateGas")

C23_Witness ==
    \E i \in Events :
        /\ Failed(task[i], "getBalance")
        /\ Succeeded(task[i], "swap")
        /\ task[i].outcome = "Confirmed"


\* C24: with a hook-address override configured, every attempt uses the
\* override as the hook of its pool key, the factory's hook-address lookup
\* is never called and the hook resolution cannot fail; with no override the
\* lookup is called once per attempt.
C24_OverrideReplacesLookup ==
    /\ HOOK_OVERRIDE # Unset => mainPc # "hookAddress"
    /\ \A i \in Events :
          LET t == task[i]
          IN  t.pc # "idle" =>
                IF HOOK_OVERRIDE # Unset
                  THEN /\ ~Called(t, "hookAddress")
                       /\ t.outcome # "abortHook"
                       /\ t.hooks = HOOK_OVERRIDE
                       /\ t.poolKey.hooks = HOOK_OVERRIDE
                       /\ \A k \in SwapCalls(t) :
                             t.calls[k].args[4].hooks = HOOK_OVERRIDE
                  ELSE /\ Count(t, "hookAddress") = 1
                       /\ t.calls[1].op = "hookAddress"

C24_Witness ==
    /\ HOOK_OVERRIDE # Unset
    /\ \E i \in Events :
          /\ Succeeded(task[i], "swap")
          /\ CallOf(task[i], "swap").args[4].hooks = HOOK_OVERRIDE

====
